---- MODULE Spec2Model ----
(***************************************************************************)
(* Outreach window planner: the windowing/scoring engine (lib/windowing),  *)
(* the mock signal repository (lib/mock/signals), the GET /api/signals     *)
(* route, and the planner page with its Add Item dialog, its stored custom *)
(* signals and its date range, as state machines.                          *)
(*                                                                         *)
(* Time.  A Date is its time value, an integer number of ticks; an Invalid *)
(* Date is NaN.  ISO strings written by toISOString and read back by       *)
(* new Date(...) carry the time value unchanged, so a timeRange holds time *)
(* values.  Every duration the program uses is a whole number of minutes   *)
(* (the model's MINUTE), except endOfDay's final millisecond, which is one *)
(* tick.                                                                   *)
(*                                                                         *)
(* Scores.  The confidence multipliers are 0.5, 0.75 and 1.0; scores are   *)
(* held as integers in units of 1/ScoreDenominator points, so that         *)
(* 22.5 points is 90 units and the cap of 100 points is 400 units.         *)
(***************************************************************************)
EXTENDS Integers, Sequences, FiniteSets, TLC

VARIABLES
    signals,            \* the Signal[] argument of the engine call
    rangeStart,         \* computeWindows: rangeStart
    rangeEnd,           \* computeWindows: rangeEnd
    windowDurationMs,   \* computeWindows: windowDurationMs
    windows,            \* the OutreachWindow[] returned by computeWindows
    overlaps,           \* the SignalOverlap[] returned by detectSignalOverlaps
    request,            \* GET /api/signals: the query parameters
    now,                \* new Date() at the request or in the page
    response,           \* GET /api/signals: the response
    customSignals,      \* PlannerPage: the customSignals state
    localStorage,       \* localStorage.getItem(CUSTOM_SIGNALS_KEY)
    dialog,             \* AddSignalDialog: open and the form fields
    onAddCalls,         \* the calls of onAdd (handleAddSignal) made so far
    dateRange,          \* PlannerPage: the dateRange state
    scenarioMode,       \* PlannerPage: the scenarioMode state
    data,               \* PlannerPage: the data state
    fromTime,           \* findNextSaferWindow: fromTime
    nextSafer,          \* what findNextSaferWindow returned
    filtered,           \* what filterSignalsByDateRange returned
    pc                  \* "ready" before the call; after it "windows",
                        \* "overlaps", "answered", "found", "filtered" or
                        \* "refiltered", by what has returned; "page" in the
                        \* planner page

engineVars == <<signals, rangeStart, rangeEnd, windowDurationMs, windows, overlaps>>
apiVars == <<request, response>>
pageVars == <<customSignals, localStorage, dialog, onAddCalls>>
rangeVars == <<dateRange, scenarioMode, data>>
utilVars == <<fromTime, nextSafer, filtered>>

vars == <<engineVars, apiVars, now, pageVars, rangeVars, utilVars, pc>>

----------------------------------------------------------------------------
(* Bounds of the model *)

\* ticks per minute of the model clock
TicksPerMinute == 1
\* longest Signal[] drawn as an engine input
MaxSignals == 3
\* latest instant of a signal of a drawn list of more than two signals
MaxTime == 1
\* latest instant of a drawn range bound
MaxRange == 5
\* longest windowDurationMs drawn
MaxDuration == 2
\* most signals added through the Add Item dialog
MaxAdded == 1
\* longest OutreachWindow[] drawn as an argument of findNextSaferWindow
MaxWindows == 3

----------------------------------------------------------------------------
(* Dates *)

\* the time value of an Invalid Date
NaN == -1

isNaN(t) == t = NaN

\* a < b on Dates: a comparison with an Invalid Date is false
DateLt(a, b) == ~isNaN(a) /\ ~isNaN(b) /\ a < b
DateLe(a, b) == ~isNaN(a) /\ ~isNaN(b) /\ a <= b
DateGt(a, b) == DateLt(b, a)
DateGe(a, b) == DateLe(b, a)

MathMin(a, b) == IF isNaN(a) \/ isNaN(b) THEN NaN ELSE IF a <= b THEN a ELSE b
MathMax(a, b) == IF isNaN(a) \/ isNaN(b) THEN NaN ELSE IF a >= b THEN a ELSE b

MINUTE == TicksPerMinute
HOUR == 60 * MINUTE
DAY == 24 * HOUR

----------------------------------------------------------------------------
(* Types *)

ImpactLevel == {"low", "medium", "high"}
ConfidenceLevel == {"low", "medium", "high"}
WindowStatus == {"safer", "caution", "avoid"}

\* null
Absent == [kind |-> "null"]

\* a Signal, with the fields the engine and the route read
Signal(id, type, start, end, impact, confidence) ==
    [id |-> id, signalType |-> type,
     timeRange |-> [start |-> start, end |-> end],
     impactLevel |-> impact, confidenceLevel |-> confidence]

----------------------------------------------------------------------------
(* lib/windowing *)

ScoreDenominator == 4

IMPACT_WEIGHTS == [low |-> 10, medium |-> 30, high |-> 50]

\* 0.5, 0.75, 1.0 in units of 1/ScoreDenominator
CONFIDENCE_MULTIPLIERS == [low |-> 2, medium |-> 3, high |-> 4]

STATUS_THRESHOLDS == [safer |-> 20 * ScoreDenominator, caution |-> 50 * ScoreDenominator]

SCORE_CAP == 100 * ScoreDenominator

DEFAULT_WINDOW_DURATION_MS == 2 * HOUR

computeSignalScore(signal) ==
    LET baseScore == IMPACT_WEIGHTS[signal.impactLevel]
        multiplier == CONFIDENCE_MULTIPLIERS[signal.confidenceLevel]
    IN  baseScore * multiplier

\* findOverlaps with a signal that only touches the window counted in
findOverlaps_Inclusive(sigs, windowStart, windowEnd) ==
    SelectSeq(sigs, LAMBDA signal :
        /\ DateLe(signal.timeRange.start, windowEnd)
        /\ DateGe(signal.timeRange.end, windowStart))

findOverlaps(sigs, windowStart, windowEnd) ==
    SelectSeq(sigs, LAMBDA signal :
        LET signalStart == signal.timeRange.start
            signalEnd == signal.timeRange.end
        IN  DateLt(signalStart, windowEnd) /\ DateGt(signalEnd, windowStart))

\* getStatusFromScore with the thresholds excluded
getStatusFromScore_Strict(score) ==
    IF score < STATUS_THRESHOLDS.safer THEN "safer"
    ELSE IF score < STATUS_THRESHOLDS.caution THEN "caution"
    ELSE "avoid"

getStatusFromScore(score) ==
    IF score <= STATUS_THRESHOLDS.safer THEN "safer"
    ELSE IF score <= STATUS_THRESHOLDS.caution THEN "caution"
    ELSE "avoid"

\* overlapping.reduce((sum, signal) => sum + computeSignalScore(signal), 0)
RECURSIVE rawScore(_)
rawScore(overlapping) ==
    IF overlapping = <<>> THEN 0
    ELSE rawScore(SubSeq(overlapping, 1, Len(overlapping) - 1))
         + computeSignalScore(overlapping[Len(overlapping)])

\* the score without the cap
capScore_NoCap(raw) == raw

\* Math.min(100, rawScore)
capScore(raw) == IF raw <= SCORE_CAP THEN raw ELSE SCORE_CAP

\* the window end without the clamp to the range end
windowEnd_NoClamp(currentStart, rEnd, duration) == currentStart + duration

\* the end of the window that starts at currentStart
windowEnd(currentStart, rEnd, duration) ==
    MathMin(currentStart + duration, rEnd)

\* overlappingSignals.filter(s => s.impactLevel === 'high')
highImpact(overlappingSignals) ==
    SelectSeq(overlappingSignals, LAMBDA s : s.impactLevel = "high")

\* the medium-impact filter keeping every signal that is not low-impact
mediumImpact_NotLow(overlappingSignals) ==
    SelectSeq(overlappingSignals, LAMBDA s : s.impactLevel # "low")

\* overlappingSignals.filter(s => s.impactLevel === 'medium')
mediumImpact(overlappingSignals) ==
    SelectSeq(overlappingSignals, LAMBDA s : s.impactLevel = "medium")

\* the part `${count} ${level}-impact signal(s)`, pushed if count > 0 (the
\* titles that follow the high-impact part are left out)
annotationPart(count, level) ==
    IF count > 0 THEN << [count |-> count, level |-> level] >> ELSE <<>>

\* the text each status opens the annotation with
annotationOpening(status) ==
    IF status = "safer" THEN "Minor activity"
    ELSE IF status = "caution" THEN "Moderate disruption"
    ELSE "High disruption"

\* generateAnnotation: the annotation as its opening words and the parts
\* joined after them
generateAnnotation(overlappingSignals, status) ==
    IF Len(overlappingSignals) = 0
    THEN [opening |-> "No known disruptions", parts |-> <<>>]
    ELSE LET high == Len(highImpact(overlappingSignals))
             medium == Len(mediumImpact(overlappingSignals))
             lowImpactCount == Len(overlappingSignals) - high - medium
         IN  [opening |-> annotationOpening(status),
              parts |-> annotationPart(high, "high")
                          \o annotationPart(medium, "medium")
                          \o annotationPart(lowImpactCount, "low")]

\* the body of the while loop: the window pushed for currentStart
makeWindow(sigs, currentStart, currentEnd, windowIndex) ==
    LET overlapping == findOverlaps(sigs, currentStart, currentEnd)
        score == capScore(rawScore(overlapping))
        status == getStatusFromScore(score)
    IN  [id |-> windowIndex,
         timeRange |-> [start |-> currentStart, end |-> currentEnd],
         status |-> status,
         score |-> score,
         annotation |-> generateAnnotation(overlapping, status),
         contributingSignals |-> overlapping]

\* the loop without the increment of windowIndex
nextWindowIndex_Same(windowIndex) == windowIndex

\* windowIndex++
nextWindowIndex(windowIndex) == windowIndex + 1

\* one pass of the while loop on the loop variables (windows, currentStart,
\* windowIndex); the variables are left as they are once the loop condition
\* currentStart < rangeEnd is false
loopStep(sigs, rEnd, duration, st) ==
    IF ~DateLt(st.currentStart, rEnd) THEN st
    ELSE LET currentEnd == windowEnd(st.currentStart, rEnd, duration)
         IN  [windows |-> Append(st.windows,
                  makeWindow(sigs, st.currentStart, currentEnd, st.windowIndex)),
              currentStart |-> currentEnd,
              windowIndex |-> nextWindowIndex(st.windowIndex)]

\* the while loop: passes until the loop condition is false, and at most
\* `passes` of them (run as two halves, to keep the evaluation shallow)
RECURSIVE whileLoop(_, _, _, _, _)
whileLoop(sigs, rEnd, duration, st, passes) ==
    IF passes <= 0 \/ ~DateLt(st.currentStart, rEnd) THEN st
    ELSE IF passes = 1 THEN loopStep(sigs, rEnd, duration, st)
    ELSE LET half == passes \div 2
             mid == whileLoop(sigs, rEnd, duration, st, half)
         IN  whileLoop(sigs, rEnd, duration, mid, passes - half)

\* every pass moves currentStart forward by at least one tick, so the loop
\* makes at most rangeEnd - rangeStart passes
computeWindows(sigs, rStart, rEnd, duration) ==
    LET passes == IF DateLt(rStart, rEnd) THEN rEnd - rStart ELSE 0
    IN  whileLoop(sigs, rEnd, duration,
                  [windows |-> <<>>, currentStart |-> rStart, windowIndex |-> 0],
                  passes).windows

\* the comparator of the sort with its operands exchanged
compareStart_Descending(a, b) == b.timeRange.start - a.timeRange.start

\* (a, b) => new Date(a.timeRange.start).getTime() - new Date(b.timeRange.start).getTime()
compareStart(a, b) == a.timeRange.start - b.timeRange.start

\* array.sort(compareStart), which is stable: w is put into the sorted list
\* after the elements that do not compare greater than it
RECURSIVE insertSorted(_, _)
insertSorted(sorted, w) ==
    IF sorted = <<>> THEN <<w>>
    ELSE IF compareStart(sorted[Len(sorted)], w) <= 0 THEN Append(sorted, w)
    ELSE Append(insertSorted(SubSeq(sorted, 1, Len(sorted) - 1), w), sorted[Len(sorted)])

RECURSIVE sortByStart(_)
sortByStart(list) ==
    IF list = <<>> THEN <<>>
    ELSE insertSorted(sortByStart(SubSeq(list, 1, Len(list) - 1)), list[Len(list)])

\* windows.filter(w => new Date(w.timeRange.start) >= fromTime && w.status === 'safer')
futureWindows(ws, from) ==
    SelectSeq(ws, LAMBDA w : DateGe(w.timeRange.start, from) /\ w.status = "safer")

\* findNextSaferWindow: null is Absent
findNextSaferWindow(ws, from) ==
    IF Len(futureWindows(ws, from)) = 0 THEN Absent
    ELSE sortByStart(futureWindows(ws, from))[1]

\* the windows argument after the call: filter returns a new array, and it
\* is that array which sort reorders
windowsAfterFind(ws, from) == ws

\* signals.filter(s => s.impactLevel === 'medium' || s.impactLevel === 'high')
significantSignals(sigs) ==
    SelectSeq(sigs, LAMBDA s : s.impactLevel = "medium" \/ s.impactLevel = "high")

\* the combined impact computed with "and" for "or"
combinedImpact_Both(signalA, signalB) ==
    IF signalA.impactLevel = "high" /\ signalB.impactLevel = "high"
    THEN "high" ELSE "medium"

combinedImpact(signalA, signalB) ==
    IF signalA.impactLevel = "high" \/ signalB.impactLevel = "high"
    THEN "high" ELSE "medium"

\* the overlap pushed for the pair signalA, signalB
makeOverlap(signalA, signalB) ==
    LET startA == signalA.timeRange.start
        endA == signalA.timeRange.end
        startB == signalB.timeRange.start
        endB == signalB.timeRange.end
        overlapStart == MathMax(startA, startB)
        overlapEnd == MathMin(endA, endB)
    IN  [id |-> <<"overlap", signalA.id, signalB.id>>,
         signals |-> <<signalA, signalB>>,
         timeRange |-> [start |-> overlapStart, end |-> overlapEnd],
         combinedImpact |-> combinedImpact(signalA, signalB)]

\* if (startA < endB && endA > startB)
pairOverlaps(signalA, signalB) ==
    /\ DateLt(signalA.timeRange.start, signalB.timeRange.end)
    /\ DateGt(signalA.timeRange.end, signalB.timeRange.start)

\* the first index of the inner loop, started at i for i + 1
innerLoopStart_Self(i) == i

\* for (let j = i + 1; ...)
innerLoopStart(i) == i + 1

\* the two nested for loops over the significant signals, from (i, j) on
RECURSIVE detectFrom(_, _, _)
detectFrom(significant, i, j) ==
    IF i > Len(significant) THEN <<>>
    ELSE IF j > Len(significant)
         THEN detectFrom(significant, i + 1, innerLoopStart(i + 1))
         ELSE (IF pairOverlaps(significant[i], significant[j])
               THEN <<makeOverlap(significant[i], significant[j])>>
               ELSE <<>>)
              \o detectFrom(significant, i, j + 1)

detectSignalOverlaps(sigs) ==
    detectFrom(significantSignals(sigs), 1, innerLoopStart(1))

----------------------------------------------------------------------------
(* lib/mock/signals *)

\* setTime(addDays(today, days), hours, minutes), with today (the local
\* midnight of the day the module was loaded) as instant 0
at(days, hours, minutes) == days * DAY + hours * HOUR + minutes * MINUTE

sanitationSignals == <<
    Signal("sanitation-1", "sanitation", at(0, 8, 0), at(0, 12, 0), "medium", "medium"),
    Signal("sanitation-2", "sanitation", at(1, 9, 0), at(1, 13, 0), "medium", "low"),
    Signal("sanitation-3", "sanitation", at(2, 7, 0), at(2, 11, 0), "high", "medium"),
    Signal("sanitation-4", "sanitation", at(3, 6, 0), at(3, 10, 0), "medium", "high") >>

publicEventSignals == <<
    Signal("event-1", "publicEvent", at(2, 17, 0), at(2, 22, 0), "medium", "high"),
    Signal("event-2", "publicEvent", at(3, 9, 0), at(3, 14, 0), "low", "high"),
    Signal("event-3", "publicEvent", at(4, 10, 0), at(4, 16, 0), "low", "high"),
    Signal("event-4", "publicEvent", at(5, 11, 0), at(5, 20, 0), "low", "high") >>

shelterSignals == <<
    Signal("shelter-1", "shelterHours", at(0, 17, 0), at(0, 20, 0), "low", "high"),
    Signal("shelter-2", "shelterHours", at(0, 8, 0), at(0, 14, 0), "low", "high"),
    Signal("shelter-3", "shelterHours", at(1, 10, 0), at(1, 15, 0), "low", "high"),
    Signal("shelter-4", "shelterHours", at(0, 11, 0), at(0, 13, 0), "low", "high") >>

transitSignals == <<
    Signal("transit-1", "transitDisruption", at(0, 0, 0), at(7, 23, 59), "medium", "high"),
    Signal("transit-2", "transitDisruption", at(2, 6, 0), at(2, 18, 0), "low", "medium") >>

serviceBottleneckSignals == <<
    Signal("bottleneck-1", "serviceBottleneck", at(0, 8, 0), at(3, 17, 0), "medium", "medium") >>

infrastructureSignals == <<
    Signal("infra-1", "infrastructureWork", at(1, 7, 0), at(1, 19, 0), "medium", "low") >>

megaEventSignals == <<
    Signal("mega-1", "megaEvent", at(14, 0, 0), at(21, 23, 59), "high", "low"),
    Signal("mega-2", "megaEvent", at(15, 6, 0), at(15, 22, 0), "high", "low"),
    Signal("mega-3", "megaEvent", at(14, 0, 0), at(28, 23, 59), "high", "low") >>

getBaseSignals ==
    sanitationSignals \o publicEventSignals \o shelterSignals \o transitSignals
        \o serviceBottleneckSignals \o infrastructureSignals

\* getAllSignals returning the scenario signals in either mode
getAllSignals_AlwaysScenario(includeScenario) == getBaseSignals \o megaEventSignals

getAllSignals(includeScenario) ==
    LET base == getBaseSignals
    IN  IF includeScenario THEN base \o megaEventSignals ELSE base

\* the filter with the signals that only touch the range left out
filterSignalsByDateRange_Strict(sigs, start, end) ==
    SelectSeq(sigs, LAMBDA signal :
        /\ DateLt(signal.timeRange.start, end)
        /\ DateGt(signal.timeRange.end, start))

filterSignalsByDateRange(sigs, start, end) ==
    SelectSeq(sigs, LAMBDA signal :
        LET signalStart == signal.timeRange.start
            signalEnd == signal.timeRange.end
        IN  DateLe(signalStart, end) /\ DateGe(signalEnd, start))

----------------------------------------------------------------------------
(* app/api/signals/route.ts *)

\* searchParams.get(name): null when the parameter is absent, else its text.
\* The text of a date is the toISOString text of its time value; any other
\* text is kept as it is.
Text(t) == [kind |-> "text", text |-> t]
IsoText(time) == [kind |-> "date", time |-> time]

\* param ? ... : ... -- null and the empty string are falsy
truthy(param) == param.kind # "null" /\ param # Text("")

\* new Date(text): the time value of a date text, Invalid Date otherwise
newDate(param) == IF param.kind = "date" THEN param.time ELSE NaN

\* t + ms on time values: NaN stays NaN
plusMs(t, ms) == IF isNaN(t) THEN NaN ELSE t + ms

SEVEN_DAYS == 7 * DAY

BadRequest(message) == [status |-> 400, error |-> message]

\* the range check accepting end = start
endNotAfterStart_Strict(start, end) == DateLt(end, start)

\* if (end <= start)
endNotAfterStart(start, end) == DateLe(end, start)

\* scenarioParam === 'on'
parseScenario(scenarioParam) == scenarioParam = Text("on")

\* the handler: the response to the query req received at instant nowT
GETResponse(req, nowT) ==
    LET startParam == req.start
        endParam == req.end
        scenarioParam == req.scenario
        start == IF truthy(startParam) THEN newDate(startParam) ELSE nowT
        end == IF truthy(endParam) THEN newDate(endParam) ELSE plusMs(start, SEVEN_DAYS)
        includeScenario == parseScenario(scenarioParam)
    IN  IF isNaN(start) \/ isNaN(end)
        THEN BadRequest("Invalid date format. Use ISO 8601 format.")
        ELSE IF endNotAfterStart(start, end)
        THEN BadRequest("End date must be after start date.")
        ELSE LET allSignals == getAllSignals(includeScenario)
                 filteredSignals == filterSignalsByDateRange(allSignals, start, end)
             IN  [status |-> 200,
                  signals |-> filteredSignals,
                  overlaps |-> detectSignalOverlaps(filteredSignals),
                  windows |-> computeWindows(filteredSignals, start, end,
                                             DEFAULT_WINDOW_DURATION_MS),
                  meta |-> [queryRange |-> [start |-> start, end |-> end],
                            scenarioMode |-> includeScenario]]

----------------------------------------------------------------------------
(* app/planner/page: the custom signals and their storage *)

\* A text typed into a form field: `body` with `lead` spaces before it and
\* `trail` spaces after it; a text of spaces only has the empty body.
Padded(lead, body, trail) == [lead |-> lead, body |-> body, trail |-> trail]

Plain(body) == Padded(0, body, 0)

\* text.trim()
trim(text) == Plain(text.body)

\* !text -- the empty string is falsy
isEmptyText(text) == text = Plain("")

\* a custom Signal, with the fields the page, the dialog and the engine read
CustomSignal(id, type, title, start, end, impact) ==
    [id |-> id, signalType |-> type, title |-> title,
     timeRange |-> [start |-> start, end |-> end],
     impactLevel |-> impact, confidenceLevel |-> "high", isCustom |-> TRUE]

\* the ids "demo-custom-k", "custom-<Date.now()>-<random>" and those of
\* imported files, as pairs of a prefix and a number
demoId(k) == <<"demo-custom", k>>

\* `custom-${Date.now()}-${Math.random().toString(36).substr(2, 9)}`: the
\* time stamp and the nine random characters are taken to make the id of
\* each submitted signal new; the id is the serial number of the submission
customId(serial) == <<"custom", serial>>

getDemoCustomSignals == <<
    CustomSignal(demoId(1), "custom", Plain("Team Alpha Morning Shift"),
                 at(0, 9, 0), at(0, 13, 0), "low"),
    CustomSignal(demoId(2), "custom", Plain("Resource Distribution Run"),
                 at(0, 14, 0), at(0, 17, 0), "low"),
    CustomSignal(demoId(3), "shelterHours", Plain("Partner Org Coordination Meeting"),
                 at(1, 10, 0), at(1, 11, 0), "low"),
    CustomSignal(demoId(4), "custom", Plain("Team Beta Evening Outreach"),
                 at(1, 17, 0), at(1, 21, 0), "low"),
    CustomSignal(demoId(5), "publicEvent", Plain("Mobile Health Clinic - MacArthur Park"),
                 at(2, 10, 0), at(2, 15, 0), "low"),
    CustomSignal(demoId(6), "custom", Plain("Housing Navigation Workshop"),
                 at(2, 13, 0), at(2, 15, 0), "low"),
    CustomSignal(demoId(7), "custom", Plain("Weekend Resource Distribution"),
                 at(3, 9, 0), at(3, 13, 0), "low"),
    CustomSignal(demoId(8), "serviceBottleneck", Plain("DMV Mobile Unit Visit"),
                 at(3, 10, 0), at(3, 16, 0), "medium"),
    CustomSignal(demoId(9), "custom", Plain("Team Gamma Midday Shift"),
                 at(4, 11, 0), at(4, 15, 0), "low"),
    CustomSignal(demoId(10), "custom", Plain("Volunteer Training Session"),
                 at(5, 10, 0), at(5, 13, 0), "low") >>

\* JSON.stringify(value): a text that JSON.parse reads back as `value`.
\* The values the page writes are strings, booleans, numbers and arrays
\* and objects of them, which JSON carries unchanged.
JSONstringify(value) == [kind |-> "text", json |-> value]

\* whether JSON.parse(text) returns (it throws a SyntaxError otherwise)
isJSON(text) == "json" \in DOMAIN text

JSONparse(text) == text.json

\* parsed.customSignals is truthy: the property is there (and is an array)
hasCustomSignals(parsed) == "customSignals" \in DOMAIN parsed

\* the load effect: what setCustomSignals is called with, for the stored item
loadCustomSignals(stored) ==
    IF truthy(stored)
    THEN IF ~isJSON(stored) THEN getDemoCustomSignals
         ELSE LET parsed == JSONparse(stored)
              IN  IF hasCustomSignals(parsed) /\ Len(parsed.customSignals) > 0
                  THEN parsed.customSignals
                  ELSE getDemoCustomSignals
    ELSE getDemoCustomSignals

\* the item saveCustomSignals stores for a list
storedItem(sigs, nowT) ==
    JSONstringify([customSignals |-> sigs, lastModified |-> nowT, version |-> 1])

\* [...customSignals, { ...signal, isCustom: true }]
addSignal(sigs, signal) == Append(sigs, [signal EXCEPT !.isCustom = TRUE])

\* the filter with === for !==: only the signal with the id is kept
removeSignal_KeepOnly(sigs, signalId) == SelectSeq(sigs, LAMBDA s : s.id = signalId)

\* customSignals.filter(s => s.id !== signalId)
removeSignal(sigs, signalId) == SelectSeq(sigs, LAMBDA s : s.id # signalId)

\* arr.findIndex(x => x.id === id), for an id that is in arr
findIndex(arr, id) ==
    CHOOSE k \in DOMAIN arr :
        /\ arr[k].id = id
        /\ \A j \in 1 .. k - 1 : arr[j].id # id

\* the index of the last element of arr with this id
findLastIndex(arr, id) ==
    CHOOSE k \in DOMAIN arr :
        /\ arr[k].id = id
        /\ \A j \in k + 1 .. Len(arr) : arr[j].id # id

\* arr.filter((s, i) => keep(i)), from index i on
RECURSIVE filterByIndex(_, _, _)
filterByIndex(arr, keep, i) ==
    IF i > Len(arr) THEN <<>>
    ELSE (IF i \in keep THEN <<arr[i]>> ELSE <<>>) \o filterByIndex(arr, keep, i + 1)

\* the dedupe keeping the last signal of each id
dedupeById_KeepLast(merged) ==
    filterByIndex(merged,
                  { i \in DOMAIN merged : findLastIndex(merged, merged[i].id) = i }, 1)

\* merged.filter((s, i, arr) => arr.findIndex(x => x.id === s.id) === i)
dedupeById(merged) ==
    filterByIndex(merged,
                  { i \in DOMAIN merged : findIndex(merged, merged[i].id) = i }, 1)

\* the list handleImport saves for a file whose text parses to an object
\* with a customSignals array
importSignals(sigs, imported) == dedupeById(sigs \o imported.customSignals)

\* imported.customSignals && Array.isArray(imported.customSignals), for a
\* file text; a text that is not JSON makes JSON.parse throw
importsSignals(fileText) ==
    isJSON(fileText) /\ hasCustomSignals(JSONparse(fileText))

----------------------------------------------------------------------------
(* app/planner/page: the date range and the computed data *)

\* date-fns on local time, with instant 0 a local midnight
addDays(t, days) == t + days * DAY
startOfDay(t) == (t \div DAY) * DAY
\* 23:59:59.999 of the day: its last tick
endOfDay(t) == startOfDay(t) + DAY - 1

\* dateRange === "1d" ? 1 : dateRange === "7d" ? 7 : 30
daysOfRange(range) ==
    IF range = "1d" THEN 1 ELSE IF range = "7d" THEN 7 ELSE 30

\* what calculateData passes to setData
calculateData(range, scenario, nowT) ==
    LET start == startOfDay(nowT)
        end == endOfDay(addDays(nowT, daysOfRange(range)))
        filteredSignals == filterSignalsByDateRange(getAllSignals(scenario), start, end)
    IN  [signals |-> filteredSignals,
         overlaps |-> detectSignalOverlaps(filteredSignals),
         windows |-> computeWindows(filteredSignals, start, end, DEFAULT_WINDOW_DURATION_MS),
         meta |-> [queryRange |-> [start |-> start, end |-> end],
                   scenarioMode |-> scenario]]

----------------------------------------------------------------------------
(* components/planner/AddSignalDialog *)

\* format(date, "yyyy-MM-dd'T'HH:mm"): the local time, cut to the minute
format(t) == IsoText((t \div MINUTE) * MINUTE)

addHours(t, hours) == t + hours * HOUR

\* the form fields after useState's initial values and after resetForm
resetForm(nowT) ==
    [title |-> Plain(""), impactLevel |-> "low",
     startDate |-> format(nowT), endDate |-> format(addHours(nowT, 2))]

\* the dialog: the open state with the form fields
Dialog(open, form) ==
    [open |-> open, title |-> form.title, impactLevel |-> form.impactLevel,
     startDate |-> form.startDate, endDate |-> form.endDate]

\* the end of handleSubmit's checks with the end allowed to equal the start
endNotAfterStartDate_Strict(start, end) == DateLt(end, start)

\* if (end <= start)
endNotAfterStartDate(start, end) == DateLe(end, start)

\* how handleSubmit ends for the form fields: "blank" and "alert" are its
\* two early returns, "throws" is date.toISOString() of an Invalid Date
\* (a RangeError, which ends the handler), "added" is the call of onAdd
submitOutcome(form) ==
    LET start == newDate(form.startDate)
        end == newDate(form.endDate)
    IN  IF isEmptyText(trim(form.title)) THEN "blank"
        ELSE IF endNotAfterStartDate(start, end) THEN "alert"
        ELSE IF isNaN(start) \/ isNaN(end) THEN "throws"
        ELSE "added"

\* the signal handleSubmit passes to onAdd
submittedSignal(form, serial) ==
    CustomSignal(customId(serial), "custom", trim(form.title),
                 newDate(form.startDate), newDate(form.endDate), form.impactLevel)

----------------------------------------------------------------------------
(* Engine inputs *)

\* the instants the interval bounds of a list of n signals are drawn from:
\* lists of at most two signals range over one more instant than longer ones
InputTimes(n) == 0 .. (IF n <= 2 THEN MaxTime + 1 ELSE MaxTime)

\* what the engine reads of a signal besides its id: an interval, an impact
\* and a confidence
SignalAttrs(n) ==
    { [start |-> s, end |-> e, impactLevel |-> imp, confidenceLevel |-> conf] :
        s \in InputTimes(n), e \in InputTimes(n),
        imp \in ImpactLevel, conf \in ConfidenceLevel }

\* intervals with start before end: what the mock data and the Add Item
\* dialog produce
ProperAttrs(n) == { a \in SignalAttrs(n) : a.start < a.end }

\* the input list with attributes f[1] .. f[n]; the id of a signal is its
\* position, so ids are distinct
SignalList(f) ==
    [i \in DOMAIN f |->
        Signal(i, "custom", f[i].start, f[i].end, f[i].impactLevel, f[i].confidenceLevel)]

\* the response before the handler has answered
NoResponse == [status |-> 0]

\* the variables of the page, of its date range and of the utility calls
\* in the specifications that do not use them
NoPage ==
    /\ customSignals = <<>>
    /\ localStorage = Absent
    /\ dialog = Dialog(FALSE, resetForm(0))
    /\ onAddCalls = 0

NoRange ==
    /\ dateRange = "7d"
    /\ scenarioMode = FALSE
    /\ data = Absent

NoUtil ==
    /\ fromTime = 0
    /\ nextSafer = Absent
    /\ filtered = <<>>

NoEngine ==
    /\ signals = <<>>
    /\ rangeStart = 0
    /\ rangeEnd = 0
    /\ windowDurationMs = DEFAULT_WINDOW_DURATION_MS
    /\ windows = <<>>
    /\ overlaps = <<>>

NoApi ==
    /\ request = [start |-> Absent, end |-> Absent, scenario |-> Absent]
    /\ response = NoResponse

----------------------------------------------------------------------------
(* computeWindows applied to drawn inputs *)

\* Every list of at most MaxSignals proper signals.  With at most one signal
\* the range is any pair over 0 .. MaxRange (empty and inverted ranges
\* included); with more signals the range is the span of their instants,
\* cut into unit windows when there are more than two.
InitWindows ==
    /\ \E n \in 0 .. MaxSignals : \E f \in [1 .. n -> ProperAttrs(n)] :
          /\ signals = SignalList(f)
          /\ IF n <= 1
             THEN /\ rangeStart \in 0 .. MaxRange
                  /\ rangeEnd \in 0 .. MaxRange
                  /\ windowDurationMs \in 1 .. MaxDuration
             ELSE /\ rangeStart = 0
                  /\ rangeEnd \in { t \in InputTimes(n) : \A u \in InputTimes(n) : u <= t }
                  /\ windowDurationMs \in (IF n = 2 THEN 1 .. MaxDuration ELSE {1})
    /\ windows = <<>>
    /\ overlaps = <<>>
    /\ request = [start |-> Absent, end |-> Absent, scenario |-> Absent]
    /\ now = 0
    /\ response = NoResponse
    /\ NoPage /\ NoRange /\ NoUtil
    /\ pc = "ready"

ComputeWindows ==
    /\ pc = "ready"
    /\ windows' = computeWindows(signals, rangeStart, rangeEnd, windowDurationMs)
    /\ pc' = "windows"
    /\ UNCHANGED <<signals, rangeStart, rangeEnd, windowDurationMs, overlaps,
                   request, now, response>>
    /\ UNCHANGED <<pageVars, rangeVars, utilVars>>

NextWindows == ComputeWindows

SpecWindows == InitWindows /\ [][NextWindows]_vars

----------------------------------------------------------------------------
(* detectSignalOverlaps applied to drawn inputs *)

\* detectSignalOverlaps does not read confidenceLevel: the drawn signals all
\* have the same one.  Their intervals are all pairs of instants, with the
\* empty (start = end) and the inverted (start > end) ones.
OverlapAttrs(n) == { a \in SignalAttrs(n) : a.confidenceLevel = "high" }

InitOverlaps ==
    /\ \E n \in 0 .. MaxSignals : \E f \in [1 .. n -> OverlapAttrs(n)] :
          signals = SignalList(f)
    /\ rangeStart = 0
    /\ rangeEnd = 0
    /\ windowDurationMs = 1
    /\ windows = <<>>
    /\ overlaps = <<>>
    /\ request = [start |-> Absent, end |-> Absent, scenario |-> Absent]
    /\ now = 0
    /\ response = NoResponse
    /\ NoPage /\ NoRange /\ NoUtil
    /\ pc = "ready"

DetectSignalOverlaps ==
    /\ pc = "ready"
    /\ overlaps' = detectSignalOverlaps(signals)
    /\ pc' = "overlaps"
    /\ UNCHANGED <<signals, rangeStart, rangeEnd, windowDurationMs, windows,
                   request, now, response>>
    /\ UNCHANGED <<pageVars, rangeVars, utilVars>>

NextOverlaps == DetectSignalOverlaps

SpecOverlaps == InitOverlaps /\ [][NextOverlaps]_vars

----------------------------------------------------------------------------
(* GET /api/signals applied to drawn queries *)

\* the instants named by the date parameters of the drawn queries
QueryDays == {0, 2, 14, 15}
QueryHours == {0, 8, 13}
QueryTimes == { at(d, h, 0) : d \in QueryDays, h \in QueryHours }

\* the instants at which the drawn queries arrive
NowTimes == { at(0, 9, 30), at(14, 7, 0) }

DateParams == {Absent, Text(""), Text("not-a-date")} \cup { IsoText(t) : t \in QueryTimes }
ScenarioParams == {Absent, Text("on"), Text("off"), Text("ON")}

InitApi ==
    /\ request \in [start : DateParams, end : DateParams, scenario : ScenarioParams]
    /\ now \in NowTimes
    /\ response = NoResponse
    /\ signals = <<>>
    /\ rangeStart = 0
    /\ rangeEnd = 0
    /\ windowDurationMs = DEFAULT_WINDOW_DURATION_MS
    /\ windows = <<>>
    /\ overlaps = <<>>
    /\ NoPage /\ NoRange /\ NoUtil
    /\ pc = "ready"

GET ==
    /\ pc = "ready"
    /\ response' = GETResponse(request, now)
    /\ pc' = "answered"
    /\ UNCHANGED <<signals, rangeStart, rangeEnd, windowDurationMs, windows,
                   overlaps, request, now>>
    /\ UNCHANGED <<pageVars, rangeVars, utilVars>>

NextApi == GET

SpecApi == InitApi /\ [][NextApi]_vars

----------------------------------------------------------------------------
(* The planner page: its custom signals under reload, add, remove, import *)

\* the instant new Date() returns in the page: the last tick of 9:30 of the
\* day the page is loaded
PageTimes == { at(0, 9, 30) + MINUTE - 1 }

\* the texts typed or picked in the form fields
Titles == { Plain(""), Padded(1, "", 1), Plain("Team"), Padded(1, "Team", 1) }
DateTexts(nowT) == { Text(""), format(nowT), format(addHours(nowT, 2)) }
Impacts == { "low", "high" }

\* the form fields of the dialog
formOf(d) ==
    [title |-> d.title, impactLevel |-> d.impactLevel,
     startDate |-> d.startDate, endDate |-> d.endDate]

\* the files picked for an import: a text that is not JSON, an export
\* without customSignals, an empty export, and an export holding a changed
\* copy of a demo signal and two signals of one id from another device
importedId(k) == <<"imported", k>>

ImportedLists == {
    <<>>,
    << CustomSignal(demoId(1), "custom", Plain("Team Alpha (edited)"),
                    at(0, 10, 0), at(0, 12, 0), "high"),
       CustomSignal(importedId(1), "custom", Plain("Partner visit"),
                    at(1, 9, 0), at(1, 10, 0), "medium"),
       CustomSignal(importedId(1), "custom", Plain("Partner visit (copy)"),
                    at(1, 9, 0), at(1, 11, 0), "medium") >> }

ImportFiles(nowT) ==
    { Text("not json"), JSONstringify([exportedAt |-> nowT, version |-> 1]) }
    \cup { JSONstringify([customSignals |-> l, exportedAt |-> nowT, version |-> 1]) :
             l \in ImportedLists }

\* the page after its first load: nothing stored, the dialog closed
InitPage ==
    /\ now \in PageTimes
    /\ localStorage = Absent
    /\ customSignals = loadCustomSignals(Absent)
    /\ dialog = Dialog(FALSE, resetForm(now))
    /\ onAddCalls = 0
    /\ NoEngine /\ NoApi /\ NoRange /\ NoUtil
    /\ pc = "page"

\* saveCustomSignals(signals); localStorage.setItem is taken to succeed
SaveCustomSignals(sigs) ==
    /\ localStorage' = storedItem(sigs, now)
    /\ customSignals' = sigs

\* the page is loaded again: the state is new and the load effect runs
Reload ==
    /\ pc = "page"
    /\ customSignals' = loadCustomSignals(localStorage)
    /\ dialog' = Dialog(FALSE, resetForm(now))
    /\ UNCHANGED <<localStorage, onAddCalls>>
    /\ UNCHANGED <<engineVars, apiVars, now, rangeVars, utilVars, pc>>

\* handleAddSignal(signal), the dialog's onAdd
HandleAddSignal(signal) ==
    /\ onAddCalls' = onAddCalls + 1
    /\ SaveCustomSignals(addSignal(customSignals, signal))

\* the forms of a dialog that is opened and submitted with only a title typed
TitledForms(nowT) == { [resetForm(nowT) EXCEPT !.title = text] : text \in Titles }

\* the dialog calls onAdd with the signal of a form that handleSubmit accepts
OnAdd ==
    /\ pc = "page"
    /\ onAddCalls < MaxAdded
    /\ \E form \in TitledForms(now) :
          /\ submitOutcome(form) = "added"
          /\ HandleAddSignal(submittedSignal(form, onAddCalls + 1))
    /\ UNCHANGED dialog
    /\ UNCHANGED <<engineVars, apiVars, now, rangeVars, utilVars, pc>>

\* the ids handleRemoveCustomSignal is called with: those of the listed
\* signals (the Timeline's remove buttons) and one that is in no list
AbsentId == customId(0)

RemovableIds == { customSignals[k].id : k \in DOMAIN customSignals } \cup { AbsentId }

HandleRemoveCustomSignal(signalId) ==
    /\ pc = "page"
    /\ SaveCustomSignals(removeSignal(customSignals, signalId))
    /\ UNCHANGED <<dialog, onAddCalls>>
    /\ UNCHANGED <<engineVars, apiVars, now, rangeVars, utilVars, pc>>

\* handleImport with the picked file: input.onchange runs to its end with
\* the customSignals of the render in which Import was clicked, the file
\* picker leaving no other handler to run in between
HandleImport(fileText) ==
    /\ pc = "page"
    /\ IF importsSignals(fileText)
       THEN SaveCustomSignals(importSignals(customSignals, JSONparse(fileText)))
       ELSE UNCHANGED <<customSignals, localStorage>>
    /\ UNCHANGED <<dialog, onAddCalls>>
    /\ UNCHANGED <<engineVars, apiVars, now, rangeVars, utilVars, pc>>

NextPlanner ==
    \/ Reload
    \/ OnAdd
    \/ \E signalId \in RemovableIds : HandleRemoveCustomSignal(signalId)
    \/ \E fileText \in ImportFiles(now) : HandleImport(fileText)

SpecPlanner == InitPage /\ [][NextPlanner]_vars

----------------------------------------------------------------------------
(* The Add Item dialog in the planner page *)

\* handleOpenChange(newOpen)
HandleOpenChange(newOpen) ==
    /\ pc = "page"
    /\ dialog' = IF newOpen THEN [dialog EXCEPT !.open = TRUE]
                 ELSE Dialog(FALSE, resetForm(now))
    /\ UNCHANGED <<customSignals, localStorage, onAddCalls>>
    /\ UNCHANGED <<engineVars, apiVars, now, rangeVars, utilVars, pc>>

\* the onChange handlers of the fields of the open dialog
SetTitle(text) ==
    /\ pc = "page"
    /\ dialog.open
    /\ dialog' = [dialog EXCEPT !.title = text]
    /\ UNCHANGED <<customSignals, localStorage, onAddCalls>>
    /\ UNCHANGED <<engineVars, apiVars, now, rangeVars, utilVars, pc>>

SetImpactLevel(impact) ==
    /\ pc = "page"
    /\ dialog.open
    /\ dialog' = [dialog EXCEPT !.impactLevel = impact]
    /\ UNCHANGED <<customSignals, localStorage, onAddCalls>>
    /\ UNCHANGED <<engineVars, apiVars, now, rangeVars, utilVars, pc>>

SetStartDate(text) ==
    /\ pc = "page"
    /\ dialog.open
    /\ dialog' = [dialog EXCEPT !.startDate = text]
    /\ UNCHANGED <<customSignals, localStorage, onAddCalls>>
    /\ UNCHANGED <<engineVars, apiVars, now, rangeVars, utilVars, pc>>

SetEndDate(text) ==
    /\ pc = "page"
    /\ dialog.open
    /\ dialog' = [dialog EXCEPT !.endDate = text]
    /\ UNCHANGED <<customSignals, localStorage, onAddCalls>>
    /\ UNCHANGED <<engineVars, apiVars, now, rangeVars, utilVars, pc>>

\* handleSubmit of the open dialog, with the page's handleAddSignal as onAdd
HandleSubmit ==
    /\ pc = "page"
    /\ dialog.open
    /\ IF submitOutcome(formOf(dialog)) = "added"
       THEN /\ onAddCalls < MaxAdded
            /\ HandleAddSignal(submittedSignal(formOf(dialog), onAddCalls + 1))
            /\ dialog' = Dialog(FALSE, resetForm(now))
       ELSE UNCHANGED <<customSignals, localStorage, dialog, onAddCalls>>
    /\ UNCHANGED <<engineVars, apiVars, now, rangeVars, utilVars, pc>>

NextDialog ==
    \/ \E newOpen \in BOOLEAN : HandleOpenChange(newOpen)
    \/ \E text \in Titles : SetTitle(text)
    \/ \E impact \in Impacts : SetImpactLevel(impact)
    \/ \E text \in DateTexts(now) : SetStartDate(text)
    \/ \E text \in DateTexts(now) : SetEndDate(text)
    \/ HandleSubmit

SpecDialog == InitPage /\ [][NextDialog]_vars

----------------------------------------------------------------------------
(* The planner page: its date range and scenario controls *)

\* the instants at which the page is open: the hours of the day it was
\* loaded
RangeTimes == { at(0, hours, 0) : hours \in 0 .. 23 }

DateRanges == { "1d", "7d", "30d" }

\* the page at its first render: no data yet
InitRange ==
    /\ now \in RangeTimes
    /\ dateRange = "7d"
    /\ scenarioMode = FALSE
    /\ data = Absent
    /\ NoEngine /\ NoApi /\ NoPage /\ NoUtil
    /\ pc = "page"

\* calculateData(), from the effect of the first render or the refresh button
CalculateData ==
    /\ pc = "page"
    /\ data' = calculateData(dateRange, scenarioMode, now)
    /\ UNCHANGED <<dateRange, scenarioMode>>
    /\ UNCHANGED <<engineVars, apiVars, now, pageVars, utilVars, pc>>

\* setDateRange(v) from the tabs, and the effect that follows the render:
\* calculateData with the new range
SetDateRange(v) ==
    /\ pc = "page"
    /\ data # Absent
    /\ dateRange' = v
    /\ data' = calculateData(v, scenarioMode, now)
    /\ UNCHANGED scenarioMode
    /\ UNCHANGED <<engineVars, apiVars, now, pageVars, utilVars, pc>>

\* setScenarioMode(!scenarioMode), and the effect that follows the render
ToggleScenarioMode ==
    /\ pc = "page"
    /\ data # Absent
    /\ scenarioMode' = ~scenarioMode
    /\ data' = calculateData(dateRange, ~scenarioMode, now)
    /\ UNCHANGED dateRange
    /\ UNCHANGED <<engineVars, apiVars, now, pageVars, utilVars, pc>>

NextRange ==
    \/ CalculateData
    \/ \E v \in DateRanges : SetDateRange(v)
    \/ ToggleScenarioMode

SpecRange == InitRange /\ [][NextRange]_vars

----------------------------------------------------------------------------
(* findNextSaferWindow applied to drawn inputs *)

\* what findNextSaferWindow reads of a window: its start and its status
WindowAttrs ==
    { [start |-> t, status |-> st] : t \in 0 .. MaxTime + 1, st \in WindowStatus }

\* the window list with attributes f[1] .. f[n], in any order of starts;
\* every window is one tick long and has its place in the list as its id
WindowList(f) ==
    [i \in DOMAIN f |->
        [id |-> i - 1,
         timeRange |-> [start |-> f[i].start, end |-> f[i].start + 1],
         status |-> f[i].status]]

\* the fromTime values: the instants of the starts, one after them, and an
\* Invalid Date
FromTimes == (0 .. MaxTime + 2) \cup { NaN }

InitFind ==
    /\ \E n \in 0 .. MaxWindows : \E f \in [1 .. n -> WindowAttrs] :
          windows = WindowList(f)
    /\ fromTime \in FromTimes
    /\ nextSafer = Absent
    /\ filtered = <<>>
    /\ signals = <<>>
    /\ rangeStart = 0
    /\ rangeEnd = 0
    /\ windowDurationMs = DEFAULT_WINDOW_DURATION_MS
    /\ overlaps = <<>>
    /\ now = 0
    /\ NoApi /\ NoPage /\ NoRange
    /\ pc = "ready"

FindNextSaferWindow ==
    /\ pc = "ready"
    /\ nextSafer' = findNextSaferWindow(windows, fromTime)
    /\ windows' = windowsAfterFind(windows, fromTime)
    /\ pc' = "found"
    /\ UNCHANGED <<signals, rangeStart, rangeEnd, windowDurationMs, overlaps>>
    /\ UNCHANGED <<fromTime, filtered>>
    /\ UNCHANGED <<apiVars, now, pageVars, rangeVars>>

NextFind == FindNextSaferWindow

SpecFind == InitFind /\ [][NextFind]_vars

----------------------------------------------------------------------------
(* filterSignalsByDateRange applied to drawn inputs *)

\* filterSignalsByDateRange reads the interval of a signal only: the drawn
\* signals all have the same impact and confidence.  Their intervals are all
\* pairs of instants, with the empty and the inverted ones.
FilterAttrs(n) ==
    { a \in SignalAttrs(n) : a.impactLevel = "low" /\ a.confidenceLevel = "high" }

\* every list of at most MaxSignals signals, with every range over the
\* instants of their intervals, the empty and the inverted ranges included
InitFilter ==
    /\ \E n \in 0 .. MaxSignals : \E f \in [1 .. n -> FilterAttrs(n)] :
          /\ signals = SignalList(f)
          /\ rangeStart \in InputTimes(n)
          /\ rangeEnd \in InputTimes(n)
    /\ windowDurationMs = DEFAULT_WINDOW_DURATION_MS
    /\ windows = <<>>
    /\ overlaps = <<>>
    /\ now = 0
    /\ NoApi /\ NoPage /\ NoRange /\ NoUtil
    /\ pc = "ready"

\* filterSignalsByDateRange(signals, start, end); filter returns a new array
FilterSignals ==
    /\ pc = "ready"
    /\ filtered' = filterSignalsByDateRange(signals, rangeStart, rangeEnd)
    /\ pc' = "filtered"
    /\ UNCHANGED <<engineVars, apiVars, now, pageVars, rangeVars, fromTime, nextSafer>>

\* the result filtered again with the same range
FilterAgain ==
    /\ pc = "filtered"
    /\ filtered' = filterSignalsByDateRange(filtered, rangeStart, rangeEnd)
    /\ pc' = "refiltered"
    /\ UNCHANGED <<engineVars, apiVars, now, pageVars, rangeVars, fromTime, nextSafer>>

NextFilter == FilterSignals \/ FilterAgain

SpecFilter == InitFilter /\ [][NextFilter]_vars

----------------------------------------------------------------------------
(* Claims about computeWindows *)

Done == pc = "windows"

WindowIndexes == IF Done THEN DOMAIN windows ELSE {}

\* C1: every window returned by computeWindows has a score between 0 and
\* 100 points.
C1_ScoreWithin0And100 ==
    \A i \in WindowIndexes :
        /\ 0 <= windows[i].score
        /\ windows[i].score <= 100 * ScoreDenominator

\* a window whose contributing signals add up to more than 100 points
C1_Witness ==
    \E i \in WindowIndexes :
        /\ rawScore(windows[i].contributingSignals) > 100 * ScoreDenominator
        /\ windows[i].score = 100 * ScoreDenominator

\* C2: every window returned by computeWindows has length exactly
\* windowDurationMs, for every range with rangeStart < rangeEnd.
C2_EveryWindowHasFullLength ==
    (Done /\ rangeStart < rangeEnd) =>
        \A i \in WindowIndexes :
            windows[i].timeRange.end - windows[i].timeRange.start = windowDurationMs

\* C3: for rangeStart < rangeEnd the windows partition the range: the first
\* starts at rangeStart, each next one starts where the previous one ends,
\* the last ends at rangeEnd, and every instant of [rangeStart, rangeEnd)
\* lies in exactly one window.
C3_WindowsPartitionRange ==
    (Done /\ rangeStart < rangeEnd) =>
        /\ Len(windows) >= 1
        /\ windows[1].timeRange.start = rangeStart
        /\ \A i \in 1 .. Len(windows) - 1 :
              windows[i + 1].timeRange.start = windows[i].timeRange.end
        /\ windows[Len(windows)].timeRange.end = rangeEnd
        /\ \A t \in rangeStart .. rangeEnd - 1 :
              Cardinality({ i \in DOMAIN windows :
                  windows[i].timeRange.start <= t /\ t < windows[i].timeRange.end }) = 1

\* a range cut into at least three windows, the last one shorter than the rest
C3_Witness ==
    /\ Done
    /\ rangeStart < rangeEnd
    /\ Len(windows) >= 3
    /\ windows[Len(windows)].timeRange.end - windows[Len(windows)].timeRange.start
          < windowDurationMs

\* the sum of weight * multiplier over the signals at the positions in S
RECURSIVE C4_Sum(_, _)
C4_Sum(sigs, S) ==
    IF S = {} THEN 0
    ELSE LET i == CHOOSE x \in S : TRUE
             weight == CASE sigs[i].impactLevel = "low" -> 10
                         [] sigs[i].impactLevel = "medium" -> 30
                         [] sigs[i].impactLevel = "high" -> 50
             \* 0.5, 0.75, 1.0 in quarters
             quarters == CASE sigs[i].confidenceLevel = "low" -> 2
                           [] sigs[i].confidenceLevel = "medium" -> 3
                           [] sigs[i].confidenceLevel = "high" -> 4
         IN  weight * quarters + C4_Sum(sigs, S \ {i})

\* the positions of the input signals that strictly overlap window w
C4_Contributing(w) ==
    { k \in DOMAIN signals :
        /\ signals[k].timeRange.start < w.timeRange.end
        /\ signals[k].timeRange.end > w.timeRange.start }

\* C4: a window's score is min(100, sum of weight * multiplier over its
\* contributing signals), and its contributing signals are exactly the input
\* signals with signalStart < windowEnd and signalEnd > windowStart.
C4_ScoreIsCappedWeightedSum ==
    \A i \in WindowIndexes :
        LET w == windows[i]
            total == C4_Sum(signals, C4_Contributing(w))
        IN  /\ { s.id : s \in { w.contributingSignals[k] : k \in DOMAIN w.contributingSignals } }
                  = { signals[k].id : k \in C4_Contributing(w) }
            /\ Len(w.contributingSignals) = Cardinality(C4_Contributing(w))
            /\ w.score = IF total < 400 THEN total ELSE 400

\* a window with a contributing signal and with a signal that only touches
\* its boundary
C4_Witness ==
    \E i \in WindowIndexes :
        /\ windows[i].score > 0
        /\ \E k \in DOMAIN signals :
              /\ k \notin C4_Contributing(windows[i])
              /\ \/ signals[k].timeRange.start = windows[i].timeRange.end
                 \/ signals[k].timeRange.end = windows[i].timeRange.start

\* C5: a window's status is decided by its score alone: safer iff
\* score <= 20, caution iff 20 < score <= 50, avoid iff score > 50.
C5_StatusFollowsScore ==
    \A i \in WindowIndexes :
        LET w == windows[i] IN
        /\ w.status \in {"safer", "caution", "avoid"}
        /\ w.status = "safer" <=> w.score <= 80
        /\ w.status = "caution" <=> (80 < w.score /\ w.score <= 200)
        /\ w.status = "avoid" <=> w.score > 200

\* a window that scores exactly 50 points next to a safer one that has a
\* contributing signal
C5_Witness ==
    /\ \E i \in WindowIndexes : windows[i].score = 200 /\ windows[i].status = "caution"
    /\ \E i \in WindowIndexes : windows[i].score > 0 /\ windows[i].status = "safer"

----------------------------------------------------------------------------
(* Claims about detectSignalOverlaps *)

Detected == pc = "overlaps"

OverlapIndexes == IF Detected THEN DOMAIN overlaps ELSE {}

\* the pairs of positions i < j of input signals that both have impact
\* medium or high and whose intervals strictly overlap
C6_ExpectedPairs ==
    { p \in (DOMAIN signals) \X (DOMAIN signals) :
        /\ p[1] < p[2]
        /\ signals[p[1]].impactLevel \in {"medium", "high"}
        /\ signals[p[2]].impactLevel \in {"medium", "high"}
        /\ signals[p[1]].timeRange.start < signals[p[2]].timeRange.end
        /\ signals[p[1]].timeRange.end > signals[p[2]].timeRange.start }

\* C6: detectSignalOverlaps reports exactly one overlap for each unordered
\* pair of distinct input signals that both have impact medium or high and
\* whose intervals strictly overlap, and nothing else: no overlap has a
\* low-impact signal, no pair is reported twice, no signal is paired with
\* itself.
C6_OneOverlapPerSignificantPair ==
    Detected =>
        /\ \A k \in DOMAIN overlaps :
              /\ Len(overlaps[k].signals) = 2
              /\ overlaps[k].signals[1].id # overlaps[k].signals[2].id
              /\ overlaps[k].signals[1].impactLevel # "low"
              /\ overlaps[k].signals[2].impactLevel # "low"
              /\ overlaps[k].signals[1] = signals[overlaps[k].signals[1].id]
              /\ overlaps[k].signals[2] = signals[overlaps[k].signals[2].id]
        /\ \A k, m \in DOMAIN overlaps :
              k # m => { overlaps[k].signals[1].id, overlaps[k].signals[2].id }
                         # { overlaps[m].signals[1].id, overlaps[m].signals[2].id }
        /\ { { overlaps[k].signals[1].id, overlaps[k].signals[2].id } : k \in DOMAIN overlaps }
              = { { p[1], p[2] } : p \in C6_ExpectedPairs }

\* three significant signals of which every pair overlaps
C6_Witness ==
    /\ Detected
    /\ Len(signals) = 3
    /\ Len(overlaps) = 3

StartNotAfterEnd(s) == s.timeRange.start <= s.timeRange.end
StartBeforeEnd(s) == s.timeRange.start < s.timeRange.end

C7_RangeAndImpact(o) ==
    LET a == o.signals[1]
        b == o.signals[2]
    IN  /\ o.timeRange.start =
              IF a.timeRange.start >= b.timeRange.start
              THEN a.timeRange.start ELSE b.timeRange.start
        /\ o.timeRange.end =
              IF a.timeRange.end <= b.timeRange.end
              THEN a.timeRange.end ELSE b.timeRange.end
        /\ o.combinedImpact = "high" <=>
              (a.impactLevel = "high" \/ b.impactLevel = "high")
        /\ o.combinedImpact # "high" => o.combinedImpact = "medium"

\* C7 as claimed: for signals whose start is not after their end, every
\* overlap has timeRange = [max(startA, startB), min(endA, endB)] with start
\* strictly before end, and combinedImpact is high iff one of the two
\* signals is high-impact and medium otherwise.
C7_OverlapRangeNonEmpty ==
    \A k \in OverlapIndexes :
        LET o == overlaps[k] IN
        (StartNotAfterEnd(o.signals[1]) /\ StartNotAfterEnd(o.signals[2])) =>
            /\ C7_RangeAndImpact(o)
            /\ o.timeRange.start < o.timeRange.end

\* C7 amended: the overlap's start is strictly before its end when both
\* signals have start strictly before end; when a signal has start = end the
\* overlap's start is not after its end.
C7_OverlapRangeOfProperSignals ==
    \A k \in OverlapIndexes :
        LET o == overlaps[k] IN
        (StartNotAfterEnd(o.signals[1]) /\ StartNotAfterEnd(o.signals[2])) =>
            /\ C7_RangeAndImpact(o)
            /\ o.timeRange.start <= o.timeRange.end
            /\ (StartBeforeEnd(o.signals[1]) /\ StartBeforeEnd(o.signals[2]))
                  => o.timeRange.start < o.timeRange.end

\* an overlap of a medium-impact and a high-impact signal, both with start
\* before end, that start at different instants
C7_Witness ==
    \E k \in OverlapIndexes :
        LET a == overlaps[k].signals[1]
            b == overlaps[k].signals[2]
        IN  /\ StartBeforeEnd(a) /\ StartBeforeEnd(b)
            /\ a.impactLevel # b.impactLevel
            /\ overlaps[k].combinedImpact = "high"
            /\ a.timeRange.start # b.timeRange.start
            /\ overlaps[k].timeRange.start < overlaps[k].timeRange.end

----------------------------------------------------------------------------
(* Claims about GET /api/signals *)

Answered == pc = "answered"
Ok == Answered /\ response.status = 200

IsBadRequest(r) == r.status = 400 /\ DOMAIN r = {"status", "error"}

IsOkWithRange(r, start, end) ==
    /\ r.status = 200
    /\ DOMAIN r = {"status", "signals", "overlaps", "windows", "meta"}
    /\ r.meta.queryRange = [start |-> start, end |-> end]

\* C8 as claimed: a parameter that is present is parsed, an absent start is
\* now and an absent end is start + 7 days; the answer is 400 whenever a
\* parsed date is invalid or end <= start, and carries the range otherwise.
C8_StartAsClaimed ==
    IF request.start = Absent THEN now ELSE newDate(request.start)
C8_EndAsClaimed ==
    IF request.end = Absent THEN plusMs(C8_StartAsClaimed, 7 * DAY)
    ELSE newDate(request.end)

C8_RejectsEveryUnparsedParameter ==
    Answered =>
        IF \/ C8_StartAsClaimed = NaN
           \/ C8_EndAsClaimed = NaN
           \/ C8_EndAsClaimed <= C8_StartAsClaimed
        THEN IsBadRequest(response)
        ELSE IsOkWithRange(response, C8_StartAsClaimed, C8_EndAsClaimed)

\* C8 amended: a parameter that is absent or empty takes its default (start:
\* now; end: start + 7 days); the answer is 400, with no signals, windows or
\* overlaps, whenever the start or end so obtained is not a valid date or
\* end <= start, and otherwise carries signals, overlaps, windows and meta
\* with queryRange equal to that start and end.
C8_Start ==
    IF request.start \in {Absent, Text("")} THEN now ELSE newDate(request.start)
C8_End ==
    IF request.end \in {Absent, Text("")} THEN plusMs(C8_Start, 7 * DAY)
    ELSE newDate(request.end)

C8_RejectsInvalidRange ==
    Answered =>
        IF C8_Start = NaN \/ C8_End = NaN \/ C8_End <= C8_Start
        THEN IsBadRequest(response)
        ELSE IsOkWithRange(response, C8_Start, C8_End)

\* a query whose end equals its start, answered 400
C8_Witness ==
    /\ Answered
    /\ request.start.kind = "date"
    /\ request.end = request.start
    /\ response.status = 400

IsMega(s) == s.signalType = "megaEvent"
NonMega(sigs) == SelectSeq(sigs, LAMBDA s : ~IsMega(s))
HasMega(sigs) == \E k \in DOMAIN sigs : IsMega(sigs[k])

\* the response to the same query, at the same instant, with scenario off
C9_ResponseScenarioOff == GETResponse([request EXCEPT !.scenario = Text("off")], now)

\* C9: scenario mode is on iff the scenario parameter is exactly 'on';
\* mega-event signals appear in the signals, in the windows' contributing
\* signals and in the overlaps only when meta.scenarioMode is true; the base
\* signals are the same in both modes.
C9_ScenarioOnlyWhenOn ==
    Ok =>
        /\ response.meta.scenarioMode = (request.scenario = Text("on"))
        /\ ~response.meta.scenarioMode =>
              /\ ~HasMega(response.signals)
              /\ \A i \in DOMAIN response.windows :
                    ~HasMega(response.windows[i].contributingSignals)
              /\ \A k \in DOMAIN response.overlaps :
                    ~HasMega(response.overlaps[k].signals)
        /\ LET off == C9_ResponseScenarioOff
           IN  /\ NonMega(response.signals) = off.signals
               /\ [i \in DOMAIN response.windows |->
                       NonMega(response.windows[i].contributingSignals)]
                     = [i \in DOMAIN off.windows |-> off.windows[i].contributingSignals]

\* a scenario-mode response with base signals and with mega-event signals
\* among its signals, its windows' contributing signals and its overlaps
C9_Witness ==
    /\ Ok
    /\ response.meta.scenarioMode
    /\ HasMega(response.signals)
    /\ NonMega(response.signals) # <<>>
    /\ \E i \in DOMAIN response.windows :
          HasMega(response.windows[i].contributingSignals)
    /\ \E k \in DOMAIN response.overlaps : HasMega(response.overlaps[k].signals)

\* C10: every overlap of a successful response is for the requested range:
\* its period intersects [start, end).
C10_OverlapsIntersectRange ==
    Ok =>
        \A k \in DOMAIN response.overlaps :
            /\ response.overlaps[k].timeRange.start < response.meta.queryRange.end
            /\ response.overlaps[k].timeRange.end >= response.meta.queryRange.start

----------------------------------------------------------------------------
(* Claims about the annotation and the number of the windows *)

\* the sum of the counts an annotation reports
RECURSIVE ReportedCount(_)
ReportedCount(parts) ==
    IF parts = <<>> THEN 0
    ELSE parts[1].count + ReportedCount(Tail(parts))

\* C17: the annotation of a window is the 'No known disruptions' text when
\* and only when the window has no contributing signal; otherwise it opens
\* with 'Minor activity' exactly for a safer window, 'Moderate disruption'
\* exactly for a caution window and 'High disruption' exactly for an avoid
\* window, and the high-, medium- and low-impact counts it reports add up to
\* the number of the contributing signals.
C17_AnnotationAgreesWithWindow ==
    \A i \in WindowIndexes :
        LET w == windows[i]
            opening == w.annotation.opening
        IN  /\ (opening = "No known disruptions") <=> (w.contributingSignals = <<>>)
            /\ w.contributingSignals # <<>> =>
                  /\ (opening = "Minor activity") <=> (w.status = "safer")
                  /\ (opening = "Moderate disruption") <=> (w.status = "caution")
                  /\ (opening = "High disruption") <=> (w.status = "avoid")
                  /\ ReportedCount(w.annotation.parts) = Len(w.contributingSignals)
                  /\ \A k \in DOMAIN w.annotation.parts : w.annotation.parts[k].count > 0

\* a caution window whose annotation reports signals of two impact levels,
\* a high-impact one among them, next to a window without signals
C17_Witness ==
    \E i, j \in WindowIndexes :
        /\ windows[i].status = "caution"
        /\ windows[i].annotation.opening = "Moderate disruption"
        /\ Len(windows[i].annotation.parts) = 2
        /\ windows[i].annotation.parts[1].level = "high"
        /\ windows[j].annotation.opening = "No known disruptions"

\* ceil((rangeEnd - rangeStart) / windowDurationMs)
WindowsDue ==
    (rangeEnd - rangeStart + windowDurationMs - 1) \div windowDurationMs

\* C19: for rangeStart < rangeEnd (and a positive windowDurationMs)
\* computeWindows returns ceil((rangeEnd - rangeStart) / windowDurationMs)
\* windows, with ids window-0, window-1, ... in the order of their starts,
\* the last one ending the range; for rangeEnd <= rangeStart it returns the
\* empty list.
C19_WindowCountAndIds ==
    Done =>
        IF rangeStart < rangeEnd
        THEN /\ Len(windows) = WindowsDue
             /\ \A i \in DOMAIN windows : windows[i].id = i - 1
             /\ \A i, j \in DOMAIN windows :
                   i < j => windows[i].timeRange.start < windows[j].timeRange.start
             /\ windows[Len(windows)].timeRange.end = rangeEnd
        ELSE windows = <<>>

\* a range of five ticks cut into three windows of two ticks, two ticks and
\* one tick
C19_Witness ==
    /\ Done
    /\ rangeEnd - rangeStart = 5
    /\ windowDurationMs = 2
    /\ Len(windows) = 3
    /\ windows[3].id = 2
    /\ windows[3].timeRange.end - windows[3].timeRange.start = 1

----------------------------------------------------------------------------
(* Claims about the planner page *)

\* the list held by the item that saveCustomSignals stored last
LastSaved == JSONparse(localStorage).customSignals

\* C11: once a list has been saved, loading the page again restores a
\* custom-signal list equal to the list saved last, also when that list is
\* empty.
C11_ReloadRestoresLastSaved ==
    [][Reload /\ localStorage # Absent => customSignals' = LastSaved]_vars

\* handleSubmit's condition as the claim words it: the trimmed title is not
\* empty and the end time is strictly after the start time
TitleGiven == dialog.title.body # ""
EndAfterStart ==
    /\ dialog.startDate.kind = "date"
    /\ dialog.endDate.kind = "date"
    /\ dialog.endDate.time > dialog.startDate.time

\* C12: a submit of the Add Item dialog with a non-blank title and an end
\* after the start calls onAdd once, appends one signal to the custom
\* signals, resets the form and closes the dialog; any other submit calls
\* onAdd not at all and leaves the list, the fields and the open dialog as
\* they are.
C12_SubmitAddsIffValid ==
    [][HandleSubmit =>
         IF TitleGiven /\ EndAfterStart
         THEN /\ onAddCalls' = onAddCalls + 1
              /\ Len(customSignals') = Len(customSignals) + 1
              /\ SubSeq(customSignals', 1, Len(customSignals)) = customSignals
              /\ dialog' = [open |-> FALSE, title |-> Plain(""), impactLevel |-> "low",
                            startDate |-> format(now),
                            endDate |-> format(addHours(now, 2))]
         ELSE /\ onAddCalls' = onAddCalls
              /\ customSignals' = customSignals
              /\ dialog' = dialog]_vars

\* the dialog has closed on a submitted high-impact signal: the list ends
\* with it, under its trimmed title, and the form is reset
C12_Witness ==
    /\ pc = "page"
    /\ onAddCalls = 1
    /\ ~dialog.open
    /\ dialog.title = Plain("")
    /\ Len(customSignals) = Len(getDemoCustomSignals) + 1
    /\ customSignals[Len(customSignals)].id = customId(1)
    /\ customSignals[Len(customSignals)].title = Plain("Team")
    /\ customSignals[Len(customSignals)].impactLevel = "high"
    /\ localStorage # Absent

\* whether the text of a picked file is an export with a customSignals list
HoldsSignalList(fileText) ==
    /\ "json" \in DOMAIN fileText
    /\ "customSignals" \in DOMAIN fileText.json

IdsOf(list) == { list[k].id : k \in DOMAIN list }

\* C13: after an import no two custom signals share an id, every signal
\* that was in the list before is still there unchanged, a listed signal
\* with an id that was in the list before is the signal that was there (the
\* imported one is dropped), and a file without a customSignals list leaves
\* the list as it is.
C13_ImportKeepsListAndIds ==
    [][\A fileText \in ImportFiles(now) :
         HandleImport(fileText) =>
            /\ \A i, j \in DOMAIN customSignals' :
                  customSignals'[i].id = customSignals'[j].id => i = j
            /\ \A i \in DOMAIN customSignals :
                  \E j \in DOMAIN customSignals' : customSignals'[j] = customSignals[i]
            /\ \A j \in DOMAIN customSignals' :
                  customSignals'[j].id \in IdsOf(customSignals)
                     => \E i \in DOMAIN customSignals : customSignals[i] = customSignals'[j]
            /\ ~HoldsSignalList(fileText) => customSignals' = customSignals]_vars

\* the export of another device has been imported into a list that held
\* the first demo signal: the list holds that demo signal, not the file's
\* copy of it, and the first of the file's two signals of one id
C13_Witness ==
    /\ pc = "page"
    /\ \E i, j \in DOMAIN customSignals :
          /\ customSignals[i] = getDemoCustomSignals[1]
          /\ customSignals[j].id = importedId(1)
          /\ customSignals[j].title = Plain("Partner visit")
    /\ \A k \in DOMAIN customSignals :
          customSignals[k].title \notin { Plain("Team Alpha (edited)"),
                                          Plain("Partner visit (copy)") }

\* the number of the signals before[1 .. i] whose id is not signalId
OthersUpTo(before, i, signalId) ==
    Cardinality({ k \in 1 .. i : before[k].id # signalId })

----------------------------------------------------------------------------
(* Claims about the planner's date range *)

\* the N of the chosen range Nd
ChosenDays == IF dateRange = "1d" THEN 1 ELSE IF dateRange = "7d" THEN 7 ELSE 30

\* C14: with date range Nd chosen, the planner's windows span exactly N
\* days: there are 12 * N of them, from the first start to the last end it
\* is N days.
C14_WindowsSpanChosenDays ==
    (pc = "page" /\ data # Absent) =>
        /\ Len(data.windows) = 12 * ChosenDays
        /\ data.windows[Len(data.windows)].timeRange.end
              - data.windows[1].timeRange.start = ChosenDays * DAY

----------------------------------------------------------------------------
(* Claims about findNextSaferWindow and filterSignalsByDateRange *)

\* the places of the safer windows that start at fromTime or later
SaferFrom ==
    { i \in DOMAIN windows :
        /\ windows[i].status = "safer"
        /\ fromTime # NaN
        /\ windows[i].timeRange.start >= fromTime }

\* C15: findNextSaferWindow returns a safer window that starts at fromTime
\* or later and no later than any other such window; it returns null when
\* and only when there is no such window; the windows list it was given is
\* as it was, in order and contents.
C15_NextSaferIsEarliest ==
    [][FindNextSaferWindow =>
         /\ windows' = windows
         /\ (nextSafer' = Absent) <=> (SaferFrom = {})
         /\ SaferFrom # {} =>
               \E i \in SaferFrom :
                  /\ nextSafer' = windows[i]
                  /\ \A j \in SaferFrom :
                        windows[i].timeRange.start <= windows[j].timeRange.start]_vars

\* the call has returned a window that a later safer window precedes in the
\* list, and the list holds a safer window before fromTime
C15_Witness ==
    /\ pc = "found"
    /\ \E i, j, k \in DOMAIN windows :
          /\ i < j
          /\ nextSafer = windows[j]
          /\ windows[i].status = "safer"
          /\ windows[i].timeRange.start > windows[j].timeRange.start
          /\ windows[k].status = "safer"
          /\ windows[k].timeRange.start < fromTime

\* the places of the signals with signalStart <= end and signalEnd >= start
InDateRange ==
    { i \in DOMAIN signals :
        /\ signals[i].timeRange.start <= rangeEnd
        /\ signals[i].timeRange.end >= rangeStart }

\* C16: filterSignalsByDateRange returns the signals with signalStart <= end
\* and signalEnd >= start, each once and in the order of the input, and
\* leaves the input as it was; filtering its result with the same range
\* returns that result.
C16_FilterKeepsExactlyTheRange ==
    [][/\ FilterSignals =>
             /\ signals' = signals
             /\ Len(filtered') = Cardinality(InDateRange)
             /\ \A i \in InDateRange :
                   filtered'[Cardinality({ k \in InDateRange : k <= i })] = signals[i]
       /\ FilterAgain => filtered' = filtered]_vars

\* the filter has been applied twice to a list from which it keeps a signal
\* that ends where the range starts and one that starts where it ends, and
\* drops a signal between two kept ones
C16_Witness ==
    /\ pc = "refiltered"
    /\ Len(signals) = 3
    /\ Len(filtered) = 2
    /\ filtered[1] = signals[1]
    /\ filtered[2] = signals[3]
    /\ \E i, j \in DOMAIN filtered :
          /\ filtered[i].timeRange.end = rangeStart
          /\ filtered[j].timeRange.start = rangeEnd

====
